---- MODULE Spec2Model ----
(***************************************************************************)
(* A model of pypref's Preferences class (src/Preferences.py): the two     *)
(* in-memory dictionaries, the generated preferences file, the codec that  *)
(* renders and re-loads it, and the public operations of one instance.     *)
(***************************************************************************)
EXTENDS Integers, Sequences, FiniteSets, TLC

VARIABLES
    static,     \* self.__preferences
    dynamic,    \* self.__dynamic
    file,       \* the preferences file at self.fullpath: [exists, lines]
    pyc,        \* the byte-code the import system cached for the file
    clean,      \* no mutator of this instance has raised so far
    call,       \* the call that has just run and is returning to its caller
    peer,       \* another instance over the same file: [exists, static, dynamic]
    single,     \* SinglePreferences' class attribute and its instance's flag
    shared      \* the caller holds the very dict that is self.__preferences

vars == <<static, dynamic, file, pyc, clean, call, peer, single, shared>>

(***************************************************************************)
(* Python values.  Every value is a record of the same shape so that any   *)
(* two values can be compared: t is the type, s the characters of a str,   *)
(* n the number of an int (or 0/1 of a bool), items the elements of a list *)
(* or tuple.  A character is a one-character string.                       *)
(***************************************************************************)
PyStr(s)      == [t |-> "str",   s |-> s,    n |-> 0, items |-> <<>>]
PyInt(n)      == [t |-> "int",   s |-> <<>>, n |-> n, items |-> <<>>]
PyBool(b)     == [t |-> "bool",  s |-> <<>>, n |-> IF b THEN 1 ELSE 0, items |-> <<>>]
PyNone        == [t |-> "none",  s |-> <<>>, n |-> 0, items |-> <<>>]
PyList(items) == [t |-> "list",  s |-> <<>>, n |-> 0, items |-> items]
PyTuple(items) == [t |-> "tuple", s |-> <<>>, n |-> 0, items |-> items]

EmptyDict == [k \in {} |-> PyNone]

\* dict.get(key, default)
DictGet(d, k, default) == IF k \in DOMAIN d THEN d[k] ELSE default

\* the dict d with d[k] = v executed on it
DictSet(d, k, v) == [x \in DOMAIN d \cup {k} |-> IF x = k THEN v ELSE d[x]]

\* the characters of a word, one per element
Chars(w) ==
    CASE w = "True"  -> <<"T", "r", "u", "e">>
      [] w = "False" -> <<"F", "a", "l", "s", "e">>
      [] w = "None"  -> <<"N", "o", "n", "e">>

Digits == <<"0", "1", "2", "3", "4", "5", "6", "7", "8", "9">>

RECURSIVE Concat(_)
Concat(ss) == IF ss = <<>> THEN <<>> ELSE Head(ss) \o Concat(Tail(ss))

HasChar(s, c) == \E i \in 1..Len(s) : s[i] = c

(***************************************************************************)
(* repr() and str() of the values, as the file is written with them.       *)
(***************************************************************************)
\* the delimiter repr() gives a str: double quotes only when the string has
\* a single quote and no double quote
QuoteOf(s) == IF HasChar(s, "'") /\ ~HasChar(s, "\"") THEN "\"" ELSE "'"

\* one character of a str inside the delimiter q
EscapeChar(c, q) ==
    CASE c = "\\" -> <<"\\", "\\">>
      [] c = "\n" -> <<"\\", "n">>
      [] c = q    -> <<"\\", q>>
      [] OTHER    -> <<c>>

\* the string between single quotes, nothing escaped
GetNormalizedStringUnescaped(s) == <<"'">> \o s \o <<"'">>

\* Preferences.__get_normalized_string: str(repr(s)) of a str
GetNormalizedString(s) ==
    LET q == QuoteOf(s)
    IN  <<q>> \o Concat([i \in 1..Len(s) |-> EscapeChar(s[i], q)]) \o <<q>>

RECURSIVE JoinItems(_)
RECURSIVE PyRepr(_)
\* repr(v); it is also what "%s" % (v,) gives for every value but a str
PyRepr(v) ==
    CASE v.t = "str"   -> GetNormalizedString(v.s)
      [] v.t = "int"   -> <<Digits[v.n + 1]>>
      [] v.t = "bool"  -> IF v.n = 1 THEN Chars("True") ELSE Chars("False")
      [] v.t = "none"  -> Chars("None")
      [] v.t = "list"  -> <<"[">> \o JoinItems(v.items) \o <<"]">>
      [] v.t = "tuple" ->
            IF Len(v.items) = 1
            THEN <<"(">> \o PyRepr(v.items[1]) \o <<",", ")">>
            ELSE <<"(">> \o JoinItems(v.items) \o <<")">>

JoinItems(items) ==
    IF items = <<>> THEN <<>>
    ELSE IF Len(items) = 1 THEN PyRepr(items[1])
    ELSE PyRepr(items[1]) \o <<",", " ">> \o JoinItems(Tail(items))

\* len(str(k)), which __get_lines uses to align the assignments
StrLen(v) == IF v.t = "str" THEN Len(v.s) ELSE Len(PyRepr(v))

(***************************************************************************)
(* The preferences file.  Its text is kept as the sequence of the          *)
(* statements __get_lines writes (comments and blank lines only count for  *)
(* the size); an assignment keeps the characters of its key and of its     *)
(* value and the width its left side is padded to.                         *)
(***************************************************************************)
VersionSize   == 100   \* the header comment and the __pypref_version__ line
PrefsDeclSize == 199   \* the two banner lines and "preferences = {}\n"
DynDeclSize   == 196   \* "\n", the two banner lines and "dynamic = {}\n"
PrefsPad      == 15    \* len('preferences[""]')
DynPad        == 11    \* len('dynamic[""]')

VersionLine == [kind |-> "version", target |-> "", key |-> <<>>, val |-> <<>>, width |-> 0]
DeclLine(target) == [kind |-> "decl", target |-> target, key |-> <<>>, val |-> <<>>, width |-> 0]
AssignLine(target, key, val, width) ==
    [kind |-> "assign", target |-> target, key |-> key, val |-> val, width |-> width]
\* "preferences = 0" or "dynamic = 0": a line no __get_lines writes, which
\* binds the name to something that is not a dict
ScalarLine(target) == [kind |-> "scalar", target |-> target, key |-> <<>>, val |-> <<>>, width |-> 0]

Max(a, b) == IF a >= b THEN a ELSE b

\* the keys of a dict in the order the dict is iterated
RECURSIVE KeyOrder(_)
KeyOrder(keys) ==
    IF keys = {} THEN <<>>
    ELSE LET k == CHOOSE x \in keys : TRUE IN <<k>> \o KeyOrder(keys \ {k})

RECURSIVE MaxStrLen(_)
MaxStrLen(keys) ==
    IF keys = {} THEN 0
    ELSE LET k == CHOOSE x \in keys : TRUE IN Max(StrLen(k), MaxStrLen(keys \ {k}))

\* what __get_lines substitutes for a key or a value: a str is normalized,
\* anything else goes through "%s"
Rendered(v) == IF v.t = "str" THEN GetNormalizedString(v.s) ELSE PyRepr(v)

\* the assignments of one dictionary; name is "preferences" or "dynamic"
AssignLines(name, d, pad) ==
    LET order  == KeyOrder(DOMAIN d)
        maxLen == MaxStrLen(DOMAIN d) + pad
    IN  [i \in 1..Len(order) |->
            AssignLine(name, Rendered(order[i]), Rendered(d[order[i]]),
                       Max(pad - 2 + Len(Rendered(order[i])), maxLen))]

\* Preferences.__get_lines
GetLines(preferences, dyn) ==
    <<VersionLine, DeclLine("preferences")>>
        \o AssignLines("preferences", preferences, PrefsPad)
        \o <<DeclLine("dynamic")>>
        \o AssignLines("dynamic", dyn, DynPad)

\* the number of characters of one statement, and of a text
LineSize(l) ==
    CASE l.kind = "version" -> VersionSize
      [] l.kind = "decl"    -> IF l.target = "preferences" THEN PrefsDeclSize ELSE DynDeclSize
      [] l.kind = "assign"  -> l.width + 3 + Len(l.val) + 1
      [] l.kind = "scalar"  -> IF l.target = "preferences" THEN 16 ELSE 12

RECURSIVE TextSize(_)
TextSize(lines) == IF lines = <<>> THEN 0 ELSE LineSize(Head(lines)) + TextSize(Tail(lines))

(***************************************************************************)
(* Loading: the file is executed as a Python module.  ParseValue reads one *)
(* literal from the characters of a statement, as Python's parser does.    *)
(***************************************************************************)
ParseFail == [ok |-> FALSE, v |-> PyNone, rest |-> <<>>]
Parsed(v, rest) == [ok |-> TRUE, v |-> v, rest |-> rest]

IsPrefix(p, s) == Len(p) <= Len(s) /\ SubSeq(s, 1, Len(p)) = p
Drop(s, n) == SubSeq(s, n + 1, Len(s))

RECURSIVE SkipSpaces(_)
SkipSpaces(s) == IF s # <<>> /\ Head(s) = " " THEN SkipSpaces(Tail(s)) ELSE s

\* the character an escape sequence \e stands for; an unknown escape keeps
\* the backslash
Unescape(e) ==
    CASE e = "\\" -> <<"\\">>
      [] e = "n"  -> <<"\n">>
      [] e = "'"  -> <<"'">>
      [] e = "\"" -> <<"\"">>
      [] e = "a"  -> <<"BEL">>
      [] OTHER    -> <<"\\", e>>

\* the rest of a string literal opened with the delimiter q
RECURSIVE ParseStrBody(_, _, _)
ParseStrBody(text, q, acc) ==
    IF text = <<>> THEN ParseFail
    ELSE LET c == Head(text) IN
         IF c = q THEN Parsed(PyStr(acc), Tail(text))
         ELSE IF c = "\n" THEN ParseFail
         ELSE IF c = "\\"
              THEN IF Len(text) < 2 THEN ParseFail
                   ELSE ParseStrBody(Drop(text, 2), q, acc \o Unescape(text[2]))
         ELSE ParseStrBody(Tail(text), q, acc \o <<c>>)

DigitValue(c) == CHOOSE n \in 0..9 : Digits[n + 1] = c
IsDigit(c) == \E n \in 0..9 : Digits[n + 1] = c

\* the elements read up to a closing bracket; n is 1 when a comma was seen
Elems(acc, comma) == [PyTuple(acc) EXCEPT !.n = IF comma THEN 1 ELSE 0]

RECURSIVE ParseToken(_)
RECURSIVE ParseItems(_, _, _, _)

\* after an element: a comma and more elements, or the closing bracket
Separator(rest, close, acc, comma) ==
    IF rest = <<>> THEN ParseFail
    ELSE IF Head(rest) = "," THEN ParseItems(Tail(rest), close, acc, TRUE)
    ELSE IF Head(rest) = close THEN Parsed(Elems(acc, comma), Tail(rest))
    ELSE ParseFail

\* r is the element just read
AfterItem(r, close, acc, comma) ==
    IF ~r.ok THEN ParseFail
    ELSE Separator(SkipSpaces(r.rest), close, acc \o <<r.v>>, comma)

ItemsFrom(text, close, acc, comma) ==
    IF text = <<>> THEN ParseFail
    ELSE IF Head(text) = close THEN Parsed(Elems(acc, comma), Tail(text))
    ELSE AfterItem(ParseToken(text), close, acc, comma)

\* the elements of a list or tuple display up to the closing bracket
ParseItems(text, close, acc, comma) == ItemsFrom(SkipSpaces(text), close, acc, comma)

\* the value of a display opened with "[" or "(" whose elements are r;
\* (x) is x, not a tuple
Bracketed(open, r) ==
    IF ~r.ok THEN ParseFail
    ELSE IF open = "[" THEN Parsed(PyList(r.v.items), r.rest)
    ELSE IF Len(r.v.items) = 1 /\ r.v.n = 0 THEN Parsed(r.v.items[1], r.rest)
    ELSE Parsed(PyTuple(r.v.items), r.rest)

Closer(open) == IF open = "[" THEN "]" ELSE ")"

\* one literal at the head of text, which starts with no space
ParseToken(text) ==
    IF text = <<>> THEN ParseFail
    ELSE IF Head(text) \in {"'", "\""} THEN ParseStrBody(Tail(text), Head(text), <<>>)
    ELSE IF IsDigit(Head(text)) THEN Parsed(PyInt(DigitValue(Head(text))), Tail(text))
    ELSE IF IsPrefix(Chars("True"), text)  THEN Parsed(PyBool(TRUE), Drop(text, 4))
    ELSE IF IsPrefix(Chars("False"), text) THEN Parsed(PyBool(FALSE), Drop(text, 5))
    ELSE IF IsPrefix(Chars("None"), text)  THEN Parsed(PyNone, Drop(text, 4))
    ELSE IF Head(text) \in {"[", "("}
         THEN Bracketed(Head(text),
                        ParseItems(Tail(text), Closer(Head(text)), <<>>, FALSE))
    ELSE ParseFail

ParseValue(text) == ParseToken(SkipSpaces(text))

\* r read a whole expression: one literal and nothing after it
Whole(r) == IF r.ok /\ SkipSpaces(r.rest) = <<>> THEN r ELSE ParseFail

ParseLiteral(text) == Whole(ParseValue(text))

\* the module's namespace while the statements run
EmptyModule ==
    [error |-> FALSE, version |-> FALSE,
     hasPreferences |-> FALSE, preferencesIsDict |-> FALSE, preferences |-> EmptyDict,
     hasDynamic |-> FALSE, dynamicIsDict |-> FALSE, dynamic |-> EmptyDict]

\* the statement target[k] = v executed in the namespace m
Assign(m, target, k, v) ==
    IF ~k.ok \/ ~v.ok THEN [m EXCEPT !.error = TRUE]
    ELSE IF target = "preferences"
         THEN IF m.hasPreferences /\ m.preferencesIsDict
              THEN [m EXCEPT !.preferences = DictSet(@, k.v, v.v)]
              ELSE [m EXCEPT !.error = TRUE]
         ELSE IF m.hasDynamic /\ m.dynamicIsDict
              THEN [m EXCEPT !.dynamic = DictSet(@, k.v, v.v)]
              ELSE [m EXCEPT !.error = TRUE]

\* one statement executed in the namespace m
ExecLine(m, l) ==
    IF m.error THEN m
    ELSE CASE l.kind = "version" -> [m EXCEPT !.version = TRUE]
           [] l.kind = "decl"    ->
                IF l.target = "preferences"
                THEN [m EXCEPT !.hasPreferences = TRUE, !.preferencesIsDict = TRUE,
                               !.preferences = EmptyDict]
                ELSE [m EXCEPT !.hasDynamic = TRUE, !.dynamicIsDict = TRUE,
                               !.dynamic = EmptyDict]
           [] l.kind = "scalar"  ->
                IF l.target = "preferences"
                THEN [m EXCEPT !.hasPreferences = TRUE, !.preferencesIsDict = FALSE,
                               !.preferences = EmptyDict]
                ELSE [m EXCEPT !.hasDynamic = TRUE, !.dynamicIsDict = FALSE,
                               !.dynamic = EmptyDict]
           [] l.kind = "assign"  ->
                Assign(m, l.target, ParseLiteral(l.key), ParseLiteral(l.val))

RECURSIVE ExecLines(_, _)
ExecLines(m, lines) ==
    IF lines = <<>> THEN m ELSE ExecLines(ExecLine(m, Head(lines)), Tail(lines))

\* a text with a syntax error does not compile: nothing of it runs
Compiles(lines) ==
    \A i \in 1..Len(lines) :
        lines[i].kind = "assign" => ParseLiteral(lines[i].key).ok /\ ParseLiteral(lines[i].val).ok

\* spec.loader.exec_module(module) on the code (the statements) it is given
ExecModule(lines) ==
    IF Compiles(lines) THEN ExecLines(EmptyModule, lines)
    ELSE [EmptyModule EXCEPT !.error = TRUE]

(***************************************************************************)
(* The file system and the import system.                                  *)
(*                                                                         *)
(* A write to the real file either succeeds, or is denied (open() fails,   *)
(* the file is untouched), or fails after open() has truncated the file.   *)
(* The loader (importlib's SourceFileLoader) keeps the compiled module in  *)
(* __pycache__, stamped with the source's modification time in seconds and *)
(* its size, and runs the cached code while both still match.  pyc is the  *)
(* cached code whose time stamp equals the file's current one: a write     *)
(* made in a later second than the previous one leaves no such cache.      *)
(***************************************************************************)
NoFile == [exists |-> FALSE, lines |-> <<>>]
FileOf(lines) == [exists |-> TRUE, lines |-> lines]
NoPyc == [present |-> FALSE, size |-> 0, code |-> <<>>]

WriteOutcomes == {"ok", "denied", "truncated"}

\* what one call meets: which of its writes to the temporary file fails
\* (0: none), how its write to the real file ends, and whether that write
\* falls in the same second as the file's previous modification (which only
\* matters while there is cached byte-code, c).  The real file is not
\* reached when a temporary write fails.  It also says what the asserts of
\* the call find: whether the objects passed as preferences and as dynamic
\* are dictionaries (prefsDict, dynDict), and the flag check_preferences
\* returns for the argument (check) and for the dictionary merged from it
\* (checkMerged).  In Envs the arguments are dictionaries that pass the check.
Envs(c) ==
    {e \in [tmpFail : 0..2, real : WriteOutcomes, sameSecond : BOOLEAN,
            check : {TRUE}, checkMerged : {TRUE},
            prefsDict : {TRUE}, dynDict : {TRUE}] :
        /\ e.tmpFail # 0 => e.real = "ok"
        /\ ~c.present => e.sameSecond}

\* a call whose writes would all succeed
Quiet ==
    [tmpFail |-> 0, real |-> "ok", sameSecond |-> TRUE,
     check |-> TRUE, checkMerged |-> TRUE, prefsDict |-> TRUE, dynDict |-> TRUE]

\* the calls of which an assert has something to refuse
Rejections ==
    {e \in [tmpFail : {0}, real : {"ok"}, sameSecond : {TRUE},
            check : BOOLEAN, checkMerged : BOOLEAN,
            prefsDict : BOOLEAN, dynDict : BOOLEAN] :
        ~(e.check /\ e.checkMerged /\ e.prefsDict /\ e.dynDict)}

\* the state an operation works on, with the writes it has attempted
Store(st, dy, f, c) ==
    [static |-> st, dynamic |-> dy, file |-> f, pyc |-> c,
     raised |-> FALSE, tmpWrites |-> 0, realWrites |-> 0, tmpFailed |-> FALSE,
     tmpDumped |-> <<EmptyDict, EmptyDict>>, executed |-> EmptyModule]

Raise(s) == [s EXCEPT !.raised = TRUE]

\* Preferences.__dump_file(preferences, dynamic, temp=True): the n-th write
\* of the call to a temporary file; tmpDumped is what the last one rendered
DumpTemp(s, preferences, dyn, env) ==
    LET t == [s EXCEPT !.tmpWrites = @ + 1]
    IN  IF env.tmpFail = t.tmpWrites THEN [Raise(t) EXCEPT !.tmpFailed = TRUE]
        ELSE [t EXCEPT !.tmpDumped = <<preferences, dyn>>]

\* Preferences.__dump_file(preferences, dynamic, temp=False)
DumpFile(s, preferences, dyn, env) ==
    LET t == [s EXCEPT !.realWrites = @ + 1]
        c == IF env.sameSecond THEN s.pyc ELSE NoPyc
    IN  CASE env.real = "ok" ->
                [t EXCEPT !.file = FileOf(GetLines(preferences, dyn)), !.pyc = c]
          [] env.real = "denied" -> Raise(t)
          [] env.real = "truncated" ->
                [Raise(t) EXCEPT !.file = FileOf(<<>>), !.pyc = c]

\* the import system runs the cached byte-code: it has the file's time
\* stamp and size
Cached(s) == s.pyc.present /\ s.pyc.size = TextSize(s.file.lines)

\* the code exec_module runs
CodeRun(s) == IF Cached(s) THEN s.pyc.code ELSE s.file.lines

\* the byte-code cache after the import: a source that was compiled is cached
PycAfter(s) ==
    IF Cached(s) \/ ~Compiles(s.file.lines) THEN s.pyc
    ELSE [present |-> TRUE, size |-> TextSize(s.file.lines), code |-> s.file.lines]

\* the loader refusing a module without dynamic
ImportedRequiresDynamic(s, c, m) ==
    IF m.error \/ ~m.version \/ ~m.hasPreferences \/ ~m.hasDynamic
    THEN [Raise(s) EXCEPT !.pyc = c, !.executed = m]
    ELSE IF ~m.preferencesIsDict \/ ~m.dynamicIsDict
    THEN [Raise(s) EXCEPT !.pyc = c, !.executed = m]
    ELSE [s EXCEPT !.pyc = c, !.executed = m, !.static = m.preferences,
                   !.dynamic = m.dynamic]

\* the loader not looking for __pypref_version__
ImportedToleratesNoVersion(s, c, m) ==
    IF m.error \/ ~m.hasPreferences
    THEN [Raise(s) EXCEPT !.pyc = c, !.executed = m]
    ELSE IF ~m.preferencesIsDict \/ (m.hasDynamic /\ ~m.dynamicIsDict)
    THEN [Raise(s) EXCEPT !.pyc = c, !.executed = m]
    ELSE [s EXCEPT !.pyc = c, !.executed = m, !.static = m.preferences,
                   !.dynamic = IF m.hasDynamic THEN m.dynamic ELSE EmptyDict]

\* the branch of __load_or_create for an existing file, m being the module
\* that was executed and c the cache after it: the module must have the
\* version and preferences, a dynamic it does not have is {}, and both must
\* be dictionaries
Imported(s, c, m) ==
    IF m.error \/ ~m.version \/ ~m.hasPreferences
    THEN [Raise(s) EXCEPT !.pyc = c, !.executed = m]
    ELSE IF ~m.preferencesIsDict \/ (m.hasDynamic /\ ~m.dynamicIsDict)
    THEN [Raise(s) EXCEPT !.pyc = c, !.executed = m]
    ELSE [s EXCEPT !.pyc = c, !.executed = m, !.static = m.preferences,
                   !.dynamic = IF m.hasDynamic THEN m.dynamic ELSE EmptyDict]

\* the branch for a missing file leaving the dictionaries as they are
CreatedKeepsMemory(t) == t

\* the branch of __load_or_create for a missing file, t being the store
\* after the dump of the empty document
Created(t) ==
    IF t.raised THEN t ELSE [t EXCEPT !.static = EmptyDict, !.dynamic = EmptyDict]

\* __load_or_create that writes no file when there is none
LoadOrCreateNoDump(s, env) ==
    IF s.file.exists
    THEN Imported(s, PycAfter(s), ExecModule(CodeRun(s)))
    ELSE Created(s)

\* Preferences.__load_or_create on the store s
LoadOrCreate(s, env) ==
    IF s.file.exists
    THEN Imported(s, PycAfter(s), ExecModule(CodeRun(s)))
    ELSE Created(DumpFile(s, EmptyDict, EmptyDict, env))

(***************************************************************************)
(* The operations of Preferences.                                          *)
(***************************************************************************)
NoDuplicates(items) == \A i, j \in 1..Len(items) : items[i] = items[j] => i = j

\* the asserts of set_dynamic on one value of the dynamic dictionary
ValidModules(v) ==
    \/ v.t = "none"
    \/ /\ v.t \in {"list", "tuple"}
       /\ NoDuplicates(v.items)
       /\ \A i \in 1..Len(v.items) : v.items[i].t = "str"

\* set_dynamic keeping the keys that are not preferences
NormalizedKeepsOrphans(preferences, dyn) ==
    [k \in DOMAIN dyn |->
        IF dyn[k].t = "none" THEN PyTuple(<<>>) ELSE PyTuple(dyn[k].items)]

\* set_dynamic keeping each value as it was given
NormalizedAsGiven(preferences, dyn) ==
    [k \in DOMAIN dyn \cap DOMAIN preferences |->
        IF dyn[k].t = "none" THEN PyTuple(<<>>) ELSE dyn[k]]

\* the dictionary D that set_dynamic builds
Normalized(preferences, dyn) ==
    [k \in DOMAIN dyn \cap DOMAIN preferences |->
        IF dyn[k].t = "none" THEN PyTuple(<<>>) ELSE PyTuple(dyn[k].items)]

\* the merge loops of update_preferences (overwrite = TRUE) and of
\* set_default (overwrite = FALSE) over one dictionary
Merged(old, new, overwrite) ==
    [k \in DOMAIN old \cup DOMAIN new |->
        IF k \in DOMAIN new /\ (overwrite \/ k \notin DOMAIN old) THEN new[k] ELSE old[k]]

\* the reset flag the same loops compute
Resets(old, new, overwrite) ==
    \E k \in DOMAIN new : k \notin DOMAIN old \/ (overwrite /\ old[k] # new[k])

\* set_dynamic writing the real file before the temporary one
SetDynamicFileFirst(s, dyn, env) ==
    IF ~env.dynDict THEN Raise(s)
    ELSE IF \E k \in DOMAIN dyn \cap DOMAIN s.static : ~ValidModules(dyn[k])
    THEN Raise(s)
    ELSE LET D  == Normalized(s.static, dyn)
             t1 == DumpFile(s, s.static, D, env)
             t2 == DumpTemp(t1, s.static, D, env)
         IN  IF t1.raised THEN t1
             ELSE IF t2.raised THEN t2
             ELSE [t2 EXCEPT !.dynamic = D]

\* set_dynamic looking at the declarations only after the temporary dump
SetDynamicValidatesLate(s, dyn, env) ==
    IF ~env.dynDict THEN Raise(s)
    ELSE LET D  == Normalized(s.static, dyn)
             t1 == DumpTemp(s, s.static, D, env)
             t2 == DumpFile(t1, s.static, D, env)
         IN  IF t1.raised THEN t1
             ELSE IF \E k \in DOMAIN dyn \cap DOMAIN s.static : ~ValidModules(dyn[k])
             THEN Raise(t1)
             ELSE IF t2.raised THEN t2
             ELSE [t2 EXCEPT !.dynamic = D]

\* set_dynamic assigning the dictionary before the real file is written
SetDynamicAssignsEarly(s, dyn, env) ==
    IF ~env.dynDict THEN Raise(s)
    ELSE IF \E k \in DOMAIN dyn \cap DOMAIN s.static : ~ValidModules(dyn[k])
    THEN Raise(s)
    ELSE LET D  == Normalized(s.static, dyn)
             t1 == DumpTemp(s, s.static, D, env)
             t2 == DumpFile([t1 EXCEPT !.dynamic = D], s.static, D, env)
         IN  IF t1.raised THEN t1 ELSE t2

\* Preferences.set_dynamic(dynamic)
SetDynamic(s, dyn, env) ==
    IF ~env.dynDict THEN Raise(s)
    ELSE IF \E k \in DOMAIN dyn \cap DOMAIN s.static : ~ValidModules(dyn[k])
    THEN Raise(s)
    ELSE LET D  == Normalized(s.static, dyn)
             t1 == DumpTemp(s, s.static, D, env)
             t2 == DumpFile(t1, s.static, D, env)
         IN  IF t1.raised THEN t1
             ELSE IF t2.raised THEN t2
             ELSE [t2 EXCEPT !.dynamic = D]

\* set_preferences without the restore of oldPreferences when set_dynamic
\* raises
SetPreferencesNoRollback(s, preferences, dynGiven, dyn, env) ==
    IF ~env.check \/ ~env.prefsDict THEN Raise(s)
    ELSE IF ~dynGiven
    THEN LET t1 == DumpTemp(s, preferences, s.dynamic, env)
             t2 == DumpTemp(t1, preferences, s.dynamic, env)
             t3 == DumpFile(t2, preferences, s.dynamic, env)
         IN  IF t1.raised THEN t1
             ELSE IF t2.raised THEN t2
             ELSE IF t3.raised THEN t3
             ELSE [t3 EXCEPT !.static = preferences]
    ELSE SetDynamic([s EXCEPT !.static = preferences], dyn, env)

\* set_preferences adding to the static dictionary instead of replacing it
SetPreferencesUpdates(s, preferences, dynGiven, dyn, env) ==
    LET new == Merged(s.static, preferences, TRUE) IN
    IF ~env.check \/ ~env.prefsDict THEN Raise(s)
    ELSE IF ~dynGiven
    THEN LET t1 == DumpTemp(s, new, s.dynamic, env)
             t2 == DumpTemp(t1, new, s.dynamic, env)
             t3 == DumpFile(t2, new, s.dynamic, env)
         IN  IF t1.raised THEN t1
             ELSE IF t2.raised THEN t2
             ELSE IF t3.raised THEN t3
             ELSE [t3 EXCEPT !.static = new]
    ELSE LET oldPreferences == s.static
             t == SetDynamic([s EXCEPT !.static = new], dyn, env)
         IN  IF t.raised THEN [t EXCEPT !.static = oldPreferences]
             ELSE [t EXCEPT !.static = new]

\* set_preferences calling set_dynamic before it swaps the static dictionary
SetPreferencesChecksOld(s, preferences, dynGiven, dyn, env) ==
    IF ~env.check \/ ~env.prefsDict THEN Raise(s)
    ELSE IF ~dynGiven
    THEN LET t1 == DumpTemp(s, preferences, s.dynamic, env)
             t2 == DumpTemp(t1, preferences, s.dynamic, env)
             t3 == DumpFile(t2, preferences, s.dynamic, env)
         IN  IF t1.raised THEN t1
             ELSE IF t2.raised THEN t2
             ELSE IF t3.raised THEN t3
             ELSE [t3 EXCEPT !.static = preferences]
    ELSE LET t == SetDynamic(s, dyn, env)
         IN  IF t.raised THEN t ELSE [t EXCEPT !.static = preferences]

\* Preferences.set_preferences(preferences, dynamic); dynGiven is
\* "dynamic is not None"
SetPreferences(s, preferences, dynGiven, dyn, env) ==
    IF ~env.check \/ ~env.prefsDict THEN Raise(s)
    ELSE IF ~dynGiven
    THEN LET t1 == DumpTemp(s, preferences, s.dynamic, env)
             t2 == DumpTemp(t1, preferences, s.dynamic, env)
             t3 == DumpFile(t2, preferences, s.dynamic, env)
         IN  IF t1.raised THEN t1
             ELSE IF t2.raised THEN t2
             ELSE IF t3.raised THEN t3
             ELSE [t3 EXCEPT !.static = preferences]
    ELSE LET oldPreferences == s.static
             t == SetDynamic([s EXCEPT !.static = preferences], dyn, env)
         IN  IF t.raised THEN [t EXCEPT !.static = oldPreferences]
             ELSE [t EXCEPT !.static = preferences]

\* what the set_preferences call made by update_preferences and set_default
\* meets: its arguments are the merged dictionaries
OfMerged(env) ==
    [env EXCEPT !.check = env.checkMerged, !.prefsDict = TRUE, !.dynDict = TRUE]

\* the common body of update_preferences and set_default; prefsGiven is
\* "preferences is not None"
MergeAndSet(s, prefsGiven, preferences, dynGiven, dyn, env, overwrite) ==
    IF ~prefsGiven /\ ~dynGiven THEN Raise(s)
    ELSE IF dynGiven /\ ~env.dynDict THEN Raise(s)
    ELSE IF prefsGiven /\ (~env.check \/ ~env.prefsDict) THEN Raise(s)
    ELSE LET newDynamic == IF dynGiven THEN Merged(s.dynamic, dyn, overwrite)
                           ELSE s.dynamic
             newPreferences == IF prefsGiven THEN Merged(s.static, preferences, overwrite)
                               ELSE s.static
             reset == \/ dynGiven /\ Resets(s.dynamic, dyn, overwrite)
                      \/ prefsGiven /\ Resets(s.static, preferences, overwrite)
         IN  IF reset
             THEN SetPreferences(s, newPreferences, TRUE, newDynamic, OfMerged(env))
             ELSE s

\* Preferences.update_preferences(preferences, dynamic)
UpdatePreferences(s, prefsGiven, preferences, dynGiven, dyn, env) ==
    MergeAndSet(s, prefsGiven, preferences, dynGiven, dyn, env, TRUE)

\* Preferences.set_default(preferences, dynamic)
SetDefault(s, prefsGiven, preferences, dynGiven, dyn, env) ==
    MergeAndSet(s, prefsGiven, preferences, dynGiven, dyn, env, FALSE)

\* reload raising whatever raiseError is
ReloadedRaises(s, t, raiseError) ==
    IF t.raised
    THEN [t EXCEPT !.static = s.static, !.dynamic = s.dynamic, !.raised = TRUE]
    ELSE t

\* reload's handler: t is the store __load_or_create left; when it raised,
\* the dictionaries of s are put back and the error reaches the caller only
\* with raiseError
Reloaded(s, t, raiseError) ==
    IF t.raised
    THEN [t EXCEPT !.static = s.static, !.dynamic = s.dynamic, !.raised = raiseError]
    ELSE t

\* Preferences.reload(raiseError)
Reload(s, raiseError, env) == Reloaded(s, LoadOrCreate(s, env), raiseError)

\* what get returns: the value itself, the evaluation of an expression
\* (v is the expression), or the exception it raises (names is what the
\* message of the exception names)
Value(v)     == [kind |-> "value", v |-> v, names |-> {}]
Evaluated(v) == [kind |-> "evaluated", v |-> v, names |-> {}]
NoReturn     == [kind |-> "none", v |-> PyNone, names |-> {}]

\* the exception raised by  raise Exception(fmt % args)  for a format with
\* the given number of %s: the message names the arguments when there is
\* one per %s, otherwise % itself raises a TypeError that names nothing
Formatted(conversions, args) ==
    [kind |-> "error", v |-> PyNone,
     names |-> IF Len(args) = conversions
               THEN {args[i] : i \in 1..Len(args)} ELSE {}]

\* the underlying exception, as an argument of %
Cause == PyStr(<<"e">>)

\* "Unable to import module '%s' for preference '%s' evaluation (e)"
\*     % (lib, pref, e)
ImportError(lib, pref) == Formatted(2, <<lib, pref, Cause>>)

\* "Unable to evaluate preference '%s'" % key
EvalError(key) == Formatted(1, <<key>>)

\* what the imports and eval() of one get do: nothing raises, the import of
\* a module (the first one) raises, or eval() raises
EvalOutcomes == {"ok", "import", "eval"}

\* get evaluating every key that has a declaration, an empty one included
GetEvaluatesDeclared(s, key, default, ev) ==
    LET pref == DictGet(s.static, key, default)
    IN  IF key \in DOMAIN s.dynamic
        THEN IF ev = "eval" \/ pref.t # "str" THEN EvalError(key)
             ELSE Evaluated(pref)
        ELSE Value(pref)

\* Preferences.get(key, default)
Get(s, key, default, ev) ==
    LET pref == DictGet(s.static, key, default)
        dyn  == DictGet(s.dynamic, key, PyList(<<>>))
    IN  IF Len(dyn.items) > 0
        THEN IF ev = "import" THEN ImportError(dyn.items[1], pref)
             ELSE IF ev = "eval" \/ pref.t # "str" THEN EvalError(key)
             ELSE Evaluated(pref)
        ELSE Value(pref)

\* dict.__getitem__ of a key that is not in the dict
KeyError(key) == [kind |-> "keyerror", v |-> PyNone, names |-> {key}]

\* "Unable to evaluate preference '%s' (%s)" % (key, e)
EvalErrorWithCause(key) == Formatted(2, <<key, Cause>>)

\* __getitem__ returning what is stored, whatever is declared
GetItemStored(s, key, ev) ==
    IF key \notin DOMAIN s.static THEN KeyError(key) ELSE Value(s.static[key])

\* Preferences.__getitem__(key)
GetItem(s, key, ev) ==
    IF key \notin DOMAIN s.static THEN KeyError(key)
    ELSE LET pref == s.static[key]
             dyn  == DictGet(s.dynamic, key, PyList(<<>>))
         IN  IF Len(dyn.items) > 0
             THEN IF ev = "import" THEN ImportError(dyn.items[1], pref)
                  ELSE IF ev = "eval" \/ pref.t # "str" THEN EvalErrorWithCause(key)
                  ELSE Evaluated(pref)
             ELSE Value(pref)

(***************************************************************************)
(* The calls a program makes on one Preferences instance.  Each action is  *)
(* one whole call; call records it, with the state it started from, until  *)
(* the caller has taken the result (Return).                               *)
(***************************************************************************)
KA == PyStr(<<"a">>)
KB == PyInt(1)
Keys == {KA, KB}

V1 == PyStr(<<"'">>)
V2 == PyBool(TRUE)
Values == {V1, V2}

OS == PyStr(<<"o", "s">>)
DynValues == {PyNone, PyList(<<OS>>), PyTuple(<<OS>>), PyList(<<OS, OS>>)}

\* the dictionaries with keys among K and values among V
Dicts(K, V) == UNION {[D -> V] : D \in SUBSET K}

PrefArgs == Dicts(Keys, Values)
DynArgs  == Dicts(Keys, DynValues)
Defaults == {PyNone, V1}

\* SinglePreferences.__thisInstance is None: 0 is None, another number the
\* object; created counts the objects __new__ has made
NoSingle ==
    [thisInstance |-> 0, created |-> 0, isInitialized |-> FALSE,
     directory |-> "none"]

NoCall ==
    [op |-> "none", prefsGiven |-> FALSE, prefs |-> EmptyDict,
     dynGiven |-> FALSE, dyn |-> EmptyDict, key |-> PyNone, default |-> PyNone,
     raiseError |-> FALSE, raised |-> FALSE, ev |-> "ok",
     check |-> TRUE, checkMerged |-> TRUE, prefsDict |-> TRUE, dynDict |-> TRUE,
     tmpWrites |-> 0, realWrites |-> 0, tmpFailed |-> FALSE,
     preStatic |-> EmptyDict, preDynamic |-> EmptyDict, preFile |-> NoFile,
     ret |-> NoReturn, loadedStatic |-> EmptyDict, loadedDynamic |-> EmptyDict,
     loadFailed |-> FALSE, executed |-> EmptyModule,
     directory |-> "none", preSingle |-> NoSingle, instance |-> 0,
     tmpDumped |-> <<EmptyDict, EmptyDict>>]

Idle == call.op = "none"

Self == Store(static, dynamic, file, pyc)

\* the record of a call op that ended in the store r
Called(op, r) ==
    [NoCall EXCEPT !.op = op, !.raised = r.raised,
                   !.tmpWrites = r.tmpWrites, !.realWrites = r.realWrites,
                   !.tmpFailed = r.tmpFailed, !.executed = r.executed,
                   !.tmpDumped = r.tmpDumped,
                   !.preStatic = static, !.preDynamic = dynamic, !.preFile = file]

\* the record c of a call that met env
Met(c, env) ==
    [c EXCEPT !.check = env.check, !.checkMerged = env.checkMerged,
              !.prefsDict = env.prefsDict, !.dynDict = env.dynDict]

\* the instance and the file system after a mutator that ended in r
Becomes(r) ==
    /\ static' = r.static
    /\ dynamic' = r.dynamic
    /\ file' = r.file
    /\ pyc' = r.pyc
    /\ clean' = (clean /\ ~r.raised)
    /\ UNCHANGED <<peer, single, shared>>

set_preferences(p, dynGiven, d, env) ==
    /\ Idle
    /\ LET r == SetPreferences(Self, p, dynGiven, d, env)
       IN  /\ Becomes(r)
           /\ call' = Met([Called("set_preferences", r) EXCEPT
                              !.prefsGiven = TRUE, !.prefs = p,
                              !.dynGiven = dynGiven, !.dyn = d], env)

set_dynamic(d, env) ==
    /\ Idle
    /\ LET r == SetDynamic(Self, d, env)
       IN  /\ Becomes(r)
           /\ call' = Met([Called("set_dynamic", r) EXCEPT
                              !.dynGiven = TRUE, !.dyn = d], env)

update_preferences(prefsGiven, p, dynGiven, d, env) ==
    /\ Idle
    /\ LET r == UpdatePreferences(Self, prefsGiven, p, dynGiven, d, env)
       IN  /\ Becomes(r)
           /\ call' = Met([Called("update_preferences", r) EXCEPT
                              !.prefsGiven = prefsGiven, !.prefs = p,
                              !.dynGiven = dynGiven, !.dyn = d], env)

set_default(prefsGiven, p, dynGiven, d, env) ==
    /\ Idle
    /\ LET r == SetDefault(Self, prefsGiven, p, dynGiven, d, env)
       IN  /\ Becomes(r)
           /\ call' = Met([Called("set_default", r) EXCEPT
                              !.prefsGiven = prefsGiven, !.prefs = p,
                              !.dynGiven = dynGiven, !.dyn = d], env)

get(key, default, ev) ==
    /\ Idle
    /\ LET v == Get(Self, key, default, ev)
       IN  call' = [Called("get", Self) EXCEPT
                       !.key = key, !.default = default, !.ev = ev,
                       !.raised = (v.kind = "error"), !.ret = v]
    /\ UNCHANGED <<static, dynamic, file, pyc, clean, peer, single, shared>>

\* store[key]
getitem(key, ev) ==
    /\ Idle
    /\ LET v == GetItem(Self, key, ev)
       IN  call' = [Called("getitem", Self) EXCEPT
                       !.key = key, !.ev = ev,
                       !.raised = (v.kind \in {"error", "keyerror"}), !.ret = v]
    /\ UNCHANGED <<static, dynamic, file, pyc, clean, peer, single, shared>>

\* the instance and the file system after a load that ended in r
Loads(r) ==
    /\ static' = r.static
    /\ dynamic' = r.dynamic
    /\ file' = r.file
    /\ pyc' = r.pyc
    /\ UNCHANGED <<clean, peer, single, shared>>

\* reload(raiseError) whose __load_or_create ended in t
ReloadEnds(t, r, raiseError) ==
    /\ Loads(r)
    /\ call' = [Called("reload", r) EXCEPT
                   !.raiseError = raiseError, !.loadFailed = t.raised]

reload(raiseError, env) ==
    /\ Idle
    /\ ReloadEnds(LoadOrCreate(Self, env), Reload(Self, raiseError, env), raiseError)

\* the file system after the construction of an instance that ended in r
Constructs(r) ==
    /\ file' = r.file
    /\ pyc' = r.pyc
    /\ call' = [Called("construct", r) EXCEPT
                   !.loadedStatic = r.static, !.loadedDynamic = r.dynamic,
                   !.loadFailed = r.raised]
    /\ UNCHANGED <<static, dynamic, clean, peer, single, shared>>

\* Preferences(directory, filename) constructed by the program over the
\* same file: a second instance, whose dictionaries are kept in call
construct(env) ==
    /\ Idle
    /\ Constructs(LoadOrCreate(Store(EmptyDict, EmptyDict, file, pyc), env))

\* the caller has the result of the call
Return ==
    /\ ~Idle
    /\ call' = NoCall
    /\ UNCHANGED <<static, dynamic, file, pyc, clean, peer, single, shared>>

NoPeer == [exists |-> FALSE, static |-> EmptyDict, dynamic |-> EmptyDict]

\* an instance constructed on a location that had no file: __load_or_create
\* has written the empty document
Init ==
    /\ peer = NoPeer
    /\ single = NoSingle
    /\ shared = FALSE
    /\ static = EmptyDict
    /\ dynamic = EmptyDict
    /\ file = FileOf(GetLines(EmptyDict, EmptyDict))
    /\ pyc = NoPyc
    /\ clean = TRUE
    /\ call = NoCall

\* dynamic=None is passed as (FALSE, {}), preferences=None likewise
Optional(given, args) == IF given THEN args ELSE {EmptyDict}

Next ==
    \/ /\ Idle
       /\ \E env \in Envs(pyc), dynGiven \in BOOLEAN :
            \E p \in PrefArgs, d \in Optional(dynGiven, DynArgs) :
                set_preferences(p, dynGiven, d, env)
    \/ /\ Idle
       /\ \E env \in Envs(pyc), d \in DynArgs : set_dynamic(d, env)
    \/ /\ Idle
       /\ \E env \in Envs(pyc), prefsGiven, dynGiven \in BOOLEAN :
            \E p \in Optional(prefsGiven, PrefArgs), d \in Optional(dynGiven, DynArgs) :
                update_preferences(prefsGiven, p, dynGiven, d, env)
    \/ /\ Idle
       /\ \E env \in Envs(pyc), prefsGiven, dynGiven \in BOOLEAN :
            \E p \in Optional(prefsGiven, PrefArgs), d \in Optional(dynGiven, DynArgs) :
                set_default(prefsGiven, p, dynGiven, d, env)
    \/ /\ Idle
       /\ \E key \in Keys, default \in Defaults, ev \in EvalOutcomes :
            get(key, default, ev)
    \/ /\ Idle
       /\ \E key \in Keys, ev \in EvalOutcomes : getitem(key, ev)
    \/ Return

Spec == Init /\ [][Next]_vars

(***************************************************************************)
(* Persistence: one instance writes, and the program constructs further    *)
(* instances over the same file, each of which loads it.                   *)
(***************************************************************************)
PersistDynArgs == Dicts(Keys, {PyList(<<OS>>)})

NextPersist ==
    \/ /\ Idle
       /\ \E env \in Envs(pyc), p \in PrefArgs : set_preferences(p, FALSE, EmptyDict, env)
    \/ /\ Idle
       /\ \E env \in Envs(pyc), d \in PersistDynArgs : set_dynamic(d, env)
    \/ /\ Idle
       /\ \E env \in Envs(pyc) : construct(env)
    \/ Return

SpecPersist == Init /\ [][NextPersist]_vars

(***************************************************************************)
(* Loading: the file is a Python script anyone can edit or remove, and     *)
(* whatever is at the path is executed by the next load.  The documents    *)
(* are the ones the loader's checks tell apart.                            *)
(***************************************************************************)
AnAssignment == AssignLine("preferences", Rendered(KA), Rendered(V2), PrefsPad + 1)

\* no __pypref_version__
Legacy == <<DeclLine("preferences"), AnAssignment, DeclLine("dynamic")>>
\* no dynamic, as written before version 2.0.0
NoDynamic == <<VersionLine, DeclLine("preferences"), AnAssignment>>
NoPreferences == <<VersionLine, DeclLine("dynamic")>>
PreferencesNotDict == <<VersionLine, ScalarLine("preferences"), DeclLine("dynamic")>>
DynamicNotDict == <<VersionLine, DeclLine("preferences"), AnAssignment, ScalarLine("dynamic")>>
\* a str literal that is not closed: a syntax error
Unterminated ==
    <<VersionLine, DeclLine("preferences"),
      AssignLine("preferences", Rendered(KA), <<"'", "x">>, PrefsPad + 1),
      DeclLine("dynamic")>>

Documents ==
    {NoFile} \cup
    {FileOf(l) : l \in {<<>>, Legacy, NoDynamic, NoPreferences,
                        PreferencesNotDict, DynamicNotDict, Unterminated}}

\* the file is replaced or removed from outside the instance
edit(doc, env) ==
    /\ Idle
    /\ doc # file
    /\ file' = doc
    /\ pyc' = IF env.sameSecond THEN pyc ELSE NoPyc
    /\ UNCHANGED <<static, dynamic, clean, call, peer, single, shared>>

LoadPrefArgs == {EmptyDict} \cup {DictSet(EmptyDict, k, V2) : k \in Keys}

NextLoad ==
    \/ /\ Idle
       /\ \E env \in Envs(pyc), p \in LoadPrefArgs, d \in PersistDynArgs :
            set_preferences(p, TRUE, d, env)
    \/ /\ Idle
       /\ \E env \in Envs(pyc), raiseError \in BOOLEAN : reload(raiseError, env)
    \/ /\ Idle
       /\ \E env \in Envs(pyc) : construct(env)
    \/ /\ Idle
       /\ \E env \in Envs(pyc), doc \in Documents : edit(doc, env)
    \/ Return

SpecLoad == Init /\ [][NextLoad]_vars

(***************************************************************************)
(* Two instances over one file: the instance of static and dynamic, and    *)
(* peer, which the program constructs over the same path and calls too.    *)
(* Nothing links them but the file.                                        *)
(***************************************************************************)
PeerStore == Store(peer.static, peer.dynamic, file, pyc)

\* the construction of peer ended in r; when it raised there is no new
\* instance
PeerConstructs(r) ==
    /\ file' = r.file
    /\ pyc' = r.pyc
    /\ peer' = IF r.raised THEN peer
               ELSE [exists |-> TRUE, static |-> r.static, dynamic |-> r.dynamic]
    /\ call' = [Called("peer_construct", r) EXCEPT !.loadFailed = r.raised]
    /\ UNCHANGED <<static, dynamic, clean, single, shared>>

\* peer = Preferences(directory, filename)
peer_construct(env) ==
    /\ Idle
    /\ PeerConstructs(LoadOrCreate(Store(EmptyDict, EmptyDict, file, pyc), env))

\* peer.set_preferences(p)
peer_set_preferences(p, env) ==
    /\ Idle
    /\ peer.exists
    /\ LET r == SetPreferences(PeerStore, p, FALSE, EmptyDict, env)
       IN  /\ file' = r.file
           /\ pyc' = r.pyc
           /\ peer' = [peer EXCEPT !.static = r.static, !.dynamic = r.dynamic]
           /\ call' = Met([Called("peer_set_preferences", r) EXCEPT
                              !.prefsGiven = TRUE, !.prefs = p], env)
    /\ UNCHANGED <<static, dynamic, clean, single, shared>>

NextPeers ==
    \/ /\ Idle
       /\ \E env \in Envs(pyc), p \in LoadPrefArgs :
            set_preferences(p, FALSE, EmptyDict, env)
    \/ /\ Idle
       /\ \E env \in Envs(pyc), raiseError \in BOOLEAN : reload(raiseError, env)
    \/ /\ Idle
       /\ \E env \in Envs(pyc) : peer_construct(env)
    \/ /\ Idle
       /\ \E env \in Envs(pyc), p \in LoadPrefArgs : peer_set_preferences(p, env)
    \/ Return

SpecPeers == Init /\ [][NextPeers]_vars

(***************************************************************************)
(* SinglePreferences: the class keeps one instance, the instance of static *)
(* and dynamic here, and file is the file at the location that instance    *)
(* was last given.  A construction names a location; what the file system  *)
(* holds at another location than the instance's is an input.              *)
(***************************************************************************)
Locations == {"home", "work"}

\* __new__: the object of the class attribute, made when there is none
NewSingle(c) ==
    IF c.thisInstance = 0
    THEN [c EXCEPT !.thisInstance = c.created + 1, !.created = c.created + 1,
                   !.isInitialized = FALSE]
    ELSE c

\* the file, and the cached byte-code, at location loc
FileAt(c, loc, found) == IF loc = c.directory THEN file ELSE found
PycAt(c, loc) == IF loc = c.directory THEN pyc ELSE NoPyc

\* the record of a construction at loc that returns the object of c
Constructed(c, loc, r) ==
    [Called("single_construct", r) EXCEPT
        !.loadFailed = r.raised, !.directory = loc, !.preSingle = single,
        !.instance = c.thisInstance]

\* __init__ of an initialized instance returns at once
SingleSkips(c, loc) ==
    /\ single' = c
    /\ call' = Constructed(c, loc, Self)
    /\ UNCHANGED <<static, dynamic, file, pyc, clean, peer, shared>>

\* Preferences.__init__ at loc ended in r: the flag is set when it returned
SingleInits(c, loc, r) ==
    /\ static' = r.static
    /\ dynamic' = r.dynamic
    /\ file' = r.file
    /\ pyc' = r.pyc
    /\ single' = [c EXCEPT !.directory = loc, !.isInitialized = ~r.raised]
    /\ call' = Constructed(c, loc, r)
    /\ UNCHANGED <<clean, peer, shared>>

SingleConstructsAgain(c, loc, found, env) ==
    SingleInits(c, loc,
        LoadOrCreate(Store(EmptyDict, EmptyDict, FileAt(c, loc, found),
                           PycAt(c, loc)), env))

\* __init__ of the object __new__ returned
SingleConstructs(c, loc, found, env) ==
    IF c.isInitialized THEN SingleSkips(c, loc)
    ELSE SingleInits(c, loc,
            LoadOrCreate(Store(EmptyDict, EmptyDict, FileAt(c, loc, found),
                               PycAt(c, loc)), env))

\* SinglePreferences(directory=loc)
single_construct(loc, found, env) ==
    /\ Idle
    /\ SingleConstructs(NewSingle(single), loc, found, env)

\* what a location may hold before the instance is there
Found == {NoFile} \cup {FileOf(l) : l \in {NoPreferences, NoDynamic}}

\* no SinglePreferences has been constructed
InitSingle ==
    /\ peer = NoPeer
    /\ single = NoSingle
    /\ shared = FALSE
    /\ static = EmptyDict
    /\ dynamic = EmptyDict
    /\ file = NoFile
    /\ pyc = NoPyc
    /\ clean = TRUE
    /\ call = NoCall

NextSingle ==
    \/ /\ Idle
       /\ \E env \in Envs(pyc), loc \in Locations, found \in Found :
            single_construct(loc, found, env)
    \/ /\ Idle
       /\ single.isInitialized
       /\ \E env \in Envs(pyc), p \in LoadPrefArgs :
            set_preferences(p, FALSE, EmptyDict, env)
    \/ /\ Idle
       /\ \E env \in Envs(pyc), doc \in Found : edit(doc, env)
    \/ Return

SpecSingle == InitSingle /\ [][NextSingle]_vars

(***************************************************************************)
(* The caller's own references.  A dict is an object: the caller that      *)
(* keeps the dict it passed, or a dict the instance returned, can assign   *)
(* to its keys later; shared tells whether the dict the caller passed last *)
(* is the object self.__preferences.                                       *)
(***************************************************************************)
\* an object the caller holds: its value, and whether it is the object
\* self.__preferences
Object(value, same) == [value |-> value, same |-> same]

\* the dict the caller passed to set_preferences and kept
Kept == Object(static, shared)

\* the preferences property: a deep copy
PreferencesProperty(s) == Object(s.static, FALSE)

\* the instance after a mutator that ended in r, leaving the caller's
\* references to the caller's action
Assigns(r) ==
    /\ static' = r.static
    /\ dynamic' = r.dynamic
    /\ file' = r.file
    /\ pyc' = r.pyc
    /\ clean' = (clean /\ ~r.raised)
    /\ UNCHANGED <<peer, single>>

\* p = {...}; set_preferences(p): self.__preferences = preferences binds the
\* caller's object
keeping_set_preferences(p, env) ==
    /\ Idle
    /\ LET r == SetPreferences(Self, p, FALSE, EmptyDict, env)
       IN  /\ Assigns(r)
           /\ shared' = IF r.raised THEN shared ELSE TRUE
           /\ call' = Met([Called("set_preferences", r) EXCEPT
                              !.prefsGiven = TRUE, !.prefs = p], env)

\* p = {...}; update_preferences(p): the dict it passes to set_preferences
\* is a deep copy of self.__preferences, updated
keeping_update_preferences(p, env) ==
    /\ Idle
    /\ LET r == UpdatePreferences(Self, TRUE, p, FALSE, EmptyDict, env)
       IN  /\ Assigns(r)
           /\ shared' = IF r.realWrites = 1 /\ ~r.raised THEN FALSE ELSE shared
           /\ call' = Met([Called("update_preferences", r) EXCEPT
                              !.prefsGiven = TRUE, !.prefs = p], env)

\* obj[k] = v, in the caller's code
Modifies(op, obj, k, v) ==
    /\ static' = IF obj.same THEN DictSet(obj.value, k, v) ELSE static
    /\ call' = [Called(op, Self) EXCEPT !.key = k, !.default = v]
    /\ UNCHANGED <<dynamic, file, pyc, clean, peer, single, shared>>

\* p[k] = v on the dict the caller passed to set_preferences
modify_argument(k, v) ==
    /\ Idle
    /\ Modifies("modify_argument", Kept, k, v)

\* s = store.preferences; s[k] = v
modify_snapshot(k, v) ==
    /\ Idle
    /\ Modifies("modify_snapshot", PreferencesProperty(Self), k, v)

NextCaller ==
    \/ /\ Idle
       /\ \E env \in Envs(pyc), p \in PrefArgs : keeping_set_preferences(p, env)
    \/ /\ Idle
       /\ \E env \in Envs(pyc), p \in LoadPrefArgs : keeping_update_preferences(p, env)
    \/ /\ Idle
       /\ \E env \in Envs(pyc), d \in PersistDynArgs : set_dynamic(d, env)
    \/ /\ Idle
       /\ \E k \in Keys, v \in Values : modify_argument(k, v)
    \/ /\ Idle
       /\ \E k \in Keys, v \in Values : modify_snapshot(k, v)
    \/ /\ Idle
       /\ \E key \in Keys, default \in Defaults, ev \in EvalOutcomes :
            get(key, default, ev)
    \/ Return

SpecCaller == Init /\ [][NextCaller]_vars

(***************************************************************************)
(* One instance that is given declarations of every accepted and refused   *)
(* form and reloads the file it wrote itself.                              *)
(***************************************************************************)
OwnDynArgs == Dicts({KA}, DynValues)

NextOwnFile ==
    \/ /\ Idle
       /\ \E env \in Envs(pyc), dynGiven \in BOOLEAN :
            \E p \in LoadPrefArgs, d \in Optional(dynGiven, OwnDynArgs) :
                set_preferences(p, dynGiven, d, env)
    \/ /\ Idle
       /\ \E env \in Envs(pyc), d \in OwnDynArgs : set_dynamic(d, env)
    \/ /\ Idle
       /\ \E env \in Envs(pyc), prefsGiven \in BOOLEAN :
            \E p \in Optional(prefsGiven, LoadPrefArgs), d \in PersistDynArgs :
                update_preferences(prefsGiven, p, TRUE, d, env)
    \/ /\ Idle
       /\ \E env \in Envs(pyc), prefsGiven \in BOOLEAN :
            \E p \in Optional(prefsGiven, LoadPrefArgs), d \in PersistDynArgs :
                set_default(prefsGiven, p, TRUE, d, env)
    \/ /\ Idle
       /\ \E env \in Envs(pyc), raiseError \in BOOLEAN : reload(raiseError, env)
    \/ Return

SpecOwnFile == Init /\ [][NextOwnFile]_vars

(***************************************************************************)
(* Validation: the calls are also given objects that are not dictionaries, *)
(* preferences the check_preferences hook refuses, and declarations that   *)
(* are not lists of distinct module names; no write fails.                 *)
(***************************************************************************)
ValidateDynArgs == Dicts(Keys, {PyNone, PyList(<<OS>>), PyList(<<OS, OS>>)})

NextValidate ==
    \/ /\ Idle
       /\ \E env \in Rejections \cup {Quiet}, dynGiven \in BOOLEAN :
            \E p \in PrefArgs, d \in Optional(dynGiven, ValidateDynArgs) :
                set_preferences(p, dynGiven, d, env)
    \/ /\ Idle
       /\ \E env \in Rejections \cup {Quiet}, d \in ValidateDynArgs : set_dynamic(d, env)
    \/ /\ Idle
       /\ \E env \in Rejections \cup {Quiet}, prefsGiven, dynGiven \in BOOLEAN :
            \E p \in Optional(prefsGiven, PrefArgs), d \in Optional(dynGiven, ValidateDynArgs) :
                update_preferences(prefsGiven, p, dynGiven, d, env)
    \/ /\ Idle
       /\ \E env \in Rejections \cup {Quiet}, prefsGiven, dynGiven \in BOOLEAN :
            \E p \in Optional(prefsGiven, PrefArgs), d \in Optional(dynGiven, ValidateDynArgs) :
                set_default(prefsGiven, p, dynGiven, d, env)
    \/ Return

SpecValidate == Init /\ [][NextValidate]_vars

(***************************************************************************)
(* The codec alone: a dictionary is rendered to a file that did not exist, *)
(* and the file is loaded.                                                 *)
(***************************************************************************)
MaxLen    == 2      \* the longest str among the values
MaxKeyLen == 1      \* the longest str among the keys

Alphabet == {"a", "n", "'", "\"", "\\", "\n", "{"}

Strings(n) == UNION {[1..k -> Alphabet] : k \in 0..n}

Elements == {PyInt(1), PyStr(<<"'">>), PyStr(<<"\"">>)}

CodecValues ==
    {PyStr(x) : x \in Strings(MaxLen)}
        \cup {PyInt(0), PyInt(7), PyBool(TRUE), PyBool(FALSE), PyNone}
        \cup {PyList(l) : l \in UNION {[1..k -> Elements] : k \in 0..2}}

CodecKeys == {PyStr(x) : x \in Strings(MaxKeyLen)} \cup {PyInt(0), PyInt(7)}

\* the dictionaries of at most one entry, and those of two entries whose
\* second entry is one of Values
CodecDicts ==
    {EmptyDict}
        \cup UNION {[{k} -> CodecValues] : k \in CodecKeys}
        \cup {DictSet(DictSet(EmptyDict, KA, v), KB, w) : v \in CodecValues, w \in Values}

\* __dump_file(preferences, {}) of the dictionary on a location without file
render ==
    /\ Idle
    /\ LET r == DumpFile(Self, static, EmptyDict, Quiet)
       IN  /\ file' = r.file
           /\ pyc' = r.pyc
           /\ call' = Called("render", r)
    /\ UNCHANGED <<static, dynamic, clean, peer, single, shared>>

InitCodec ==
    /\ peer = NoPeer
    /\ single = NoSingle
    /\ shared = FALSE
    /\ static \in CodecDicts
    /\ dynamic = EmptyDict
    /\ file = NoFile
    /\ pyc = NoPyc
    /\ clean = TRUE
    /\ call = NoCall

NextCodec ==
    \/ ~file.exists /\ render
    \/ /\ Idle /\ file.exists
       /\ \E env \in Envs(pyc) : construct(env)
    \/ Return

SpecCodec == InitCodec /\ [][NextCodec]_vars

(***************************************************************************)
(* Properties of the calls.                                                *)
(***************************************************************************)
Mutators == {"set_preferences", "set_dynamic", "update_preferences", "set_default"}

\* the file's text, executed as written, defines exactly the dictionaries
\* st and dy
Encodes(f, st, dy) ==
    /\ f.exists
    /\ LET m == ExecModule(f.lines)
       IN  /\ ~m.error /\ m.version
           /\ m.hasPreferences /\ m.preferencesIsDict /\ m.preferences = st
           /\ m.hasDynamic /\ m.dynamicIsDict /\ m.dynamic = dy

NoOrphan(st, dy) == DOMAIN dy \subseteq DOMAIN st

\* C3: get(key, default) returns default itself, never an evaluation of it,
\* whenever key is not a key of the static dictionary.
C3_GetReturnsDefault ==
    (call.op = "get" /\ call.key \notin DOMAIN call.preStatic)
        => call.ret = Value(call.default)

\* C4: every key of the in-memory dynamic dictionary is a key of the
\* in-memory static dictionary.
C4_DynamicKeysAreStatic == NoOrphan(static, dynamic)

\* C5: when a mutator raises, both in-memory dictionaries are what they
\* were before the call.
C5_FailureLeavesMemory ==
    (call.op \in Mutators /\ call.raised)
        => (static = call.preStatic /\ dynamic = call.preDynamic)

\* a set_preferences with a dynamic argument whose write to the real file
\* failed after the static dictionary had been swapped to a different one
C5_Witness ==
    /\ call.op = "set_preferences" /\ call.dynGiven /\ call.raised
    /\ call.realWrites = 1
    /\ call.prefs # call.preStatic

\* C6: when a write to the temporary file fails in set_preferences or
\* set_dynamic, the call raises, the real file is not written and keeps its
\* content, and the in-memory dictionaries are unchanged.
C6_PreFlight ==
    (call.op \in {"set_preferences", "set_dynamic"} /\ call.tmpFailed)
        => /\ call.raised
           /\ call.realWrites = 0
           /\ file = call.preFile
           /\ static = call.preStatic /\ dynamic = call.preDynamic

\* a set_dynamic with a valid, effective argument whose temporary write failed
C6_Witness ==
    /\ call.op = "set_dynamic" /\ call.tmpFailed
    /\ Normalized(call.preStatic, call.dyn) # call.preDynamic

\* C7: a successful set_preferences(preferences) without dynamic leaves the
\* static dictionary equal to preferences, the dynamic dictionary as it
\* was, and a file that encodes both.
C7_SetPreferencesReplaces ==
    (call.op = "set_preferences" /\ ~call.dynGiven /\ ~call.raised)
        => /\ static = call.prefs
           /\ dynamic = call.preDynamic
           /\ Encodes(file, call.prefs, call.preDynamic)

\* a successful set_preferences without dynamic that removed a key while
\* there were dynamic declarations
C7_Witness ==
    /\ call.op = "set_preferences" /\ ~call.dynGiven /\ ~call.raised
    /\ DOMAIN call.preStatic \ DOMAIN static # {}
    /\ static # EmptyDict
    /\ dynamic # EmptyDict

\* C8: a successful update_preferences(preferences, dynamic) leaves the
\* static dictionary the merge of the old one with preferences and, when
\* dynamic is given, the dynamic dictionary the merge of the old one with
\* dynamic restricted to the keys of the merged static dictionary.
C8_UpdateMerges ==
    (call.op = "update_preferences" /\ call.prefsGiven /\ ~call.raised)
        => /\ static = Merged(call.preStatic, call.prefs, TRUE)
           /\ call.dynGiven =>
                dynamic = Normalized(static, Merged(call.preDynamic, call.dyn, TRUE))

\* the declaration v names the module sequence of the stored declaration
SameModules(stored, v) == v.t \in {"list", "tuple"} /\ v.items = stored.items

\* C9: update_preferences writes nothing and changes nothing when every key
\* of preferences already has that value and every key of dynamic already
\* has a declaration naming the same modules.
C9_UpdateNoOp ==
    (/\ call.op = "update_preferences" /\ call.prefsGiven
     /\ \A k \in DOMAIN call.prefs :
            k \in DOMAIN call.preStatic /\ call.preStatic[k] = call.prefs[k]
     /\ call.dynGiven =>
            \A k \in DOMAIN call.dyn :
                k \in DOMAIN call.preDynamic /\ SameModules(call.preDynamic[k], call.dyn[k]))
        => /\ call.tmpWrites = 0 /\ call.realWrites = 0
           /\ static = call.preStatic /\ dynamic = call.preDynamic

\* C10: set_default keeps the value of every key the static dictionary had,
\* keeps the declaration of every key the dynamic dictionary had, and adds
\* only keys that were absent, with the given values.
C10_SetDefaultKeeps ==
    call.op = "set_default"
        => /\ \A k \in DOMAIN call.preStatic :
                k \in DOMAIN static /\ static[k] = call.preStatic[k]
           /\ \A k \in DOMAIN call.preDynamic :
                k \in DOMAIN dynamic /\ dynamic[k] = call.preDynamic[k]
           /\ \A k \in DOMAIN static \ DOMAIN call.preStatic :
                call.prefsGiven /\ k \in DOMAIN call.prefs /\ static[k] = call.prefs[k]

\* C8 and C10 from a state in which C4 holds
C8_FromNoOrphan == NoOrphan(call.preStatic, call.preDynamic) => C8_UpdateMerges
C10_FromNoOrphan == NoOrphan(call.preStatic, call.preDynamic) => C10_SetDefaultKeeps

\* C1: after successful mutators only, an instance constructed over the same
\* file loads dictionaries equal to the writer's, and its get returns the
\* stored value of every static key.
C1_Persistence ==
    (call.op = "construct" /\ clean)
        => /\ ~call.raised
           /\ call.loadedStatic = static
           /\ call.loadedDynamic = dynamic
           /\ \A k \in DOMAIN static \ DOMAIN dynamic, d \in Defaults :
                Get(Store(call.loadedStatic, call.loadedDynamic, file, pyc), k, d, "ok")
                    = Value(static[k])

\* C2: the file rendered from (m, {}) loads as m, and get(key, '') on the
\* loaded instance is the original value of every key.
C2_RoundTrip ==
    call.op = "construct"
        => /\ ~call.raised
           /\ call.loadedStatic = static
           /\ call.loadedDynamic = EmptyDict
           /\ \A k \in DOMAIN static :
                Get(Store(call.loadedStatic, call.loadedDynamic, file, pyc),
                    k, PyStr(<<>>), "ok") = Value(static[k])

\* a loaded dictionary with a str value that has a brace, a str key with a
\* quote, or a str value with both quotes, or a backslash before an n
C2_Witness ==
    /\ call.op = "construct" /\ ~call.raised
    /\ \E k \in DOMAIN call.loadedStatic :
          call.loadedStatic[k] \in
              {PyStr(<<"'", "\"">>), PyStr(<<"\\", "n">>), PyStr(<<"\n", "{">>)}

\* the modules a declaration names: none for None
ModulesOf(v) == IF v.t = "none" THEN <<>> ELSE v.items

\* C11: a successful set_dynamic(dynamic) leaves the dynamic dictionary with
\* exactly the keys of the argument that are static keys, each with the
\* tuple of the modules given for it (the empty tuple for None), and the
\* static dictionary as it was; and a set_dynamic that raises before writing
\* anything was given an invalid declaration for a static key, so that the
\* keys that are dropped never make the call fail.
C11_SetDynamicResult ==
    call.op = "set_dynamic"
        => /\ ~call.raised =>
                /\ DOMAIN dynamic = DOMAIN call.dyn \cap DOMAIN call.preStatic
                /\ \A k \in DOMAIN dynamic : dynamic[k] = PyTuple(ModulesOf(call.dyn[k]))
                /\ static = call.preStatic
           /\ (call.raised /\ call.tmpWrites = 0) =>
                \E k \in DOMAIN call.dyn \cap DOMAIN call.preStatic :
                    ~ValidModules(call.dyn[k])

\* a successful set_dynamic that dropped a key with an invalid declaration,
\* applied a None and applied a list of modules
C11_Witness ==
    /\ call.op = "set_dynamic" /\ ~call.raised
    /\ \E k \in DOMAIN call.dyn \ DOMAIN call.preStatic : ~ValidModules(call.dyn[k])
    /\ dynamic # EmptyDict
    /\ \E k \in DOMAIN dynamic : call.dyn[k] # PyNone

\* the declaration of key in the dynamic dictionary dy; no declaration is ()
SpecOf(dy, key) == DictGet(dy, key, PyTuple(<<>>))

\* C17: get(key) changes nothing; on a static key whose declaration names
\* at least one module it returns, when it returns, the evaluation of the
\* expression stored at the time of the call, and on a static key with no
\* declaration or an empty one it returns the stored value itself.
C17_DynamicRead ==
    (call.op = "get" /\ call.key \in DOMAIN call.preStatic)
        => /\ static = call.preStatic /\ dynamic = call.preDynamic
           /\ file = call.preFile
           /\ (Len(SpecOf(call.preDynamic, call.key).items) > 0 /\ ~call.raised)
                => call.ret = Evaluated(call.preStatic[call.key])
           /\ Len(SpecOf(call.preDynamic, call.key).items) = 0
                => call.ret = Value(call.preStatic[call.key])

\* a get that evaluated the stored expression
C17_Witness ==
    /\ call.op = "get"
    /\ call.ret = Evaluated(V1)

\* a get that returned the stored str of a key declared with no module
C17_WitnessEmpty ==
    /\ call.op = "get"
    /\ call.key \in DOMAIN call.preDynamic
    /\ call.ret = Value(V1)

\* C18: after a successful set_preferences(p, d) or update_preferences(p, d),
\* every key of d that is a key of p and was not a static key before the
\* call is a key of both dictionaries.
C18_NewKeyKeptDynamic ==
    (/\ call.op \in {"set_preferences", "update_preferences"}
     /\ call.prefsGiven /\ call.dynGiven /\ ~call.raised)
        => \A k \in (DOMAIN call.dyn \cap DOMAIN call.prefs) \ DOMAIN call.preStatic :
                k \in DOMAIN static /\ k \in DOMAIN dynamic

\* such a call that introduced a key with a declaration that names a module
C18_Witness ==
    /\ call.op \in {"set_preferences", "update_preferences"}
    /\ call.prefsGiven /\ call.dynGiven /\ ~call.raised
    /\ \E k \in (DOMAIN call.dyn \cap DOMAIN call.prefs) \ DOMAIN call.preStatic :
            k \in DOMAIN dynamic /\ Len(dynamic[k].items) > 0

\* C19: get(key) on a key whose declaration names modules raises an error
\* that names a declared module when an import fails, and an error that
\* names the key when the evaluation raises; a get that raises changes
\* nothing.
C19_GetErrors ==
    (call.op = "get" /\ Len(SpecOf(call.preDynamic, call.key).items) > 0)
        => /\ call.ev = "import" =>
                /\ call.raised
                /\ \E i \in 1..Len(SpecOf(call.preDynamic, call.key).items) :
                      SpecOf(call.preDynamic, call.key).items[i] \in call.ret.names
           /\ call.ev = "eval" =>
                call.raised /\ call.key \in call.ret.names
           /\ call.raised =>
                /\ static = call.preStatic /\ dynamic = call.preDynamic
                /\ file = call.preFile

\* C19 without the name of the module
C19_ButModuleName ==
    (call.op = "get" /\ Len(SpecOf(call.preDynamic, call.key).items) > 0)
        => /\ call.ev = "import" => call.raised
           /\ call.ev = "eval" =>
                call.raised /\ call.key \in call.ret.names
           /\ call.raised =>
                /\ static = call.preStatic /\ dynamic = call.preDynamic
                /\ file = call.preFile

\* the call wrote nothing and changed nothing
Untouched ==
    /\ call.tmpWrites = 0 /\ call.realWrites = 0
    /\ static = call.preStatic /\ dynamic = call.preDynamic
    /\ file = call.preFile

\* an argument of the call is not a dictionary, or its preferences are
\* refused by check_preferences
RefusedArgument ==
    \/ call.prefsGiven /\ ~call.prefsDict
    \/ call.dynGiven /\ ~call.dynDict
    \/ call.prefsGiven /\ ~call.check

\* C12 as stated: a mutator that is given an object that is not a
\* dictionary, preferences that check_preferences refuses, or a dynamic
\* dictionary with a value that is neither None nor a list of distinct
\* strings, raises before any write and changes nothing.
C12_ValidationBeforeIO ==
    (/\ call.op \in Mutators
     /\ \/ RefusedArgument
        \/ /\ call.dynGiven
           /\ \E k \in DOMAIN call.dyn : ~ValidModules(call.dyn[k]))
        => call.raised /\ Untouched

\* the keys whose declaration the call applies: those of the argument that
\* are keys of the static dictionary the call is setting and, for
\* set_default, that have no declaration yet
AppliedKeys ==
    CASE call.op = "set_dynamic" -> DOMAIN call.dyn \cap DOMAIN call.preStatic
      [] call.op = "set_preferences" -> DOMAIN call.dyn \cap DOMAIN call.prefs
      [] call.op = "update_preferences" ->
            DOMAIN call.dyn \cap (DOMAIN call.preStatic \cup DOMAIN call.prefs)
      [] call.op = "set_default" ->
            (DOMAIN call.dyn \cap (DOMAIN call.preStatic \cup DOMAIN call.prefs))
                \ DOMAIN call.preDynamic
      [] OTHER -> {}

\* C12 amended: the invalid value is one the call applies; and whenever a
\* mutator raises without having attempted a write, nothing has changed.
C12_AppliedValidationBeforeIO ==
    call.op \in Mutators
        => /\ (\/ RefusedArgument
               \/ /\ call.dynGiven
                  /\ \E k \in AppliedKeys : ~ValidModules(call.dyn[k]))
                => call.raised /\ Untouched
           /\ (call.raised /\ call.tmpWrites = 0) => Untouched

\* a set_preferences that had swapped in a different static dictionary when
\* set_dynamic refused a declaration
C12_Witness ==
    /\ call.op = "set_preferences" /\ call.dynGiven /\ call.raised
    /\ ~RefusedArgument
    /\ call.prefs # call.preStatic
    /\ call.preStatic # EmptyDict
    /\ \E k \in AppliedKeys : ~ValidModules(call.dyn[k])

\* the call is a load whose error, if any, reaches the caller
LoadCall == call.op = "construct" \/ (call.op = "reload" /\ call.raiseError)

\* the dictionaries of the instance the load was made for
LoadedStatic == IF call.op = "construct" THEN call.loadedStatic ELSE static
LoadedDynamic == IF call.op = "construct" THEN call.loadedDynamic ELSE dynamic

\* C13: when the load of a reload fails, both dictionaries are what they
\* were before the call, and the call raises exactly when raiseError is True.
C13_ReloadFailure ==
    (call.op = "reload" /\ call.loadFailed)
        => /\ static = call.preStatic /\ dynamic = call.preDynamic
           /\ call.raised <=> call.raiseError

\* a reload with raiseError False over a file that does not execute, by an
\* instance that holds preferences and a declaration
C13_Witness ==
    /\ call.op = "reload" /\ call.loadFailed /\ ~call.raiseError
    /\ call.executed.error
    /\ static # EmptyDict /\ dynamic # EmptyDict

\* C14 as stated: a load over an existing file whose execution leaves the
\* preferences collection or the dynamic collection undefined raises.
C14_RejectsMissingCollections ==
    (/\ LoadCall /\ call.preFile.exists
     /\ ~call.executed.hasPreferences \/ ~call.executed.hasDynamic)
        => call.raised

\* C14 amended: only the preferences collection is required; a file that
\* defines the version and the preferences but no dynamic collection loads,
\* with its preferences and an empty dynamic dictionary.
C14_RejectsMissingPreferences ==
    (LoadCall /\ call.preFile.exists)
        => /\ ~call.executed.hasPreferences => call.raised
           /\ (/\ ~call.executed.error /\ call.executed.version
               /\ call.executed.hasPreferences /\ call.executed.preferencesIsDict
               /\ ~call.executed.hasDynamic)
                => /\ ~call.raised
                   /\ LoadedStatic = call.executed.preferences
                   /\ LoadedDynamic = EmptyDict

\* an instance constructed over a file without dynamic, with its preferences
C14_Witness ==
    /\ call.op = "construct" /\ ~call.raised
    /\ ~call.executed.hasDynamic
    /\ call.loadedStatic # EmptyDict

\* the file executed defines a preferences dictionary but no version
LegacyExecuted ==
    /\ call.preFile.exists
    /\ ~call.executed.error /\ ~call.executed.version
    /\ call.executed.hasPreferences /\ call.executed.preferencesIsDict

\* C15 as stated: a file that defines the preferences collection and no
\* version loads without error, and its preferences become the static
\* dictionary.
C15_LegacyTolerated ==
    (call.op \in {"construct", "reload"} /\ LegacyExecuted)
        => /\ ~call.loadFailed
           /\ LoadedStatic = call.executed.preferences

\* C15 amended: such a file is refused as not a pypref file: the load fails,
\* construction raises, and a reload keeps the dictionaries it had.
C15_LegacyRejected ==
    (call.op \in {"construct", "reload"} /\ LegacyExecuted)
        => /\ call.loadFailed
           /\ call.op = "construct" => call.raised
           /\ call.op = "reload" =>
                static = call.preStatic /\ dynamic = call.preDynamic

\* a construction refused over a file with preferences and no version
C15_Witness ==
    /\ call.op = "construct" /\ LegacyExecuted
    /\ call.executed.preferences # EmptyDict
    /\ call.raised

\* C16: a construction on a location without file that does not raise
\* leaves a file that encodes two empty dictionaries and an instance with
\* two empty dictionaries, whose get(k, d) returns d; and a construction
\* over that file does not raise and loads two empty dictionaries.
C16_Bootstrap ==
    call.op = "construct"
        => /\ (~call.preFile.exists /\ ~call.raised) =>
                /\ Encodes(file, EmptyDict, EmptyDict)
                /\ call.loadedStatic = EmptyDict /\ call.loadedDynamic = EmptyDict
                /\ \A k \in Keys, d \in Defaults, ev \in EvalOutcomes :
                      Get(Store(call.loadedStatic, call.loadedDynamic, file, pyc),
                          k, d, ev) = Value(d)
           /\ call.preFile = FileOf(GetLines(EmptyDict, EmptyDict)) =>
                /\ ~call.raised
                /\ call.loadedStatic = EmptyDict /\ call.loadedDynamic = EmptyDict

\* a construction that created the file
C16_Witness ==
    /\ call.op = "construct" /\ ~call.preFile.exists /\ ~call.raised
    /\ call.realWrites = 1

\* a construction over the file a construction created
C16_WitnessSecond ==
    /\ call.op = "construct" /\ ~call.raised
    /\ call.preFile = FileOf(GetLines(EmptyDict, EmptyDict))

\* C20: a successful set_preferences of peer leaves a file that encodes
\* peer's dictionaries and leaves the dictionaries of this instance as they
\* were; a reload of this instance that loads a file encoding peer's
\* dictionaries ends with those dictionaries; and a successful
\* set_preferences of this instance, reloaded or not, leaves a file that
\* encodes its own dictionaries, whatever peer had written.
C20_IndependentInstances ==
    /\ (call.op = "peer_set_preferences" /\ ~call.raised)
            => /\ peer.static = call.prefs
               /\ Encodes(file, peer.static, peer.dynamic)
               /\ static = call.preStatic /\ dynamic = call.preDynamic
    /\ (/\ call.op = "reload" /\ ~call.loadFailed /\ peer.exists
        /\ Encodes(call.preFile, peer.static, peer.dynamic))
            => static = peer.static /\ dynamic = peer.dynamic
    /\ (call.op = "set_preferences" /\ ~call.raised)
            => /\ static = call.prefs
               /\ Encodes(file, static, dynamic)

\* C20 but for what reload observes
C20_ButReload ==
    /\ (call.op = "peer_set_preferences" /\ ~call.raised)
            => /\ peer.static = call.prefs
               /\ Encodes(file, peer.static, peer.dynamic)
               /\ static = call.preStatic /\ dynamic = call.preDynamic
    /\ (call.op = "set_preferences" /\ ~call.raised)
            => /\ static = call.prefs
               /\ Encodes(file, static, dynamic)

\* this instance wrote its own dictionary over a file that encoded a
\* different dictionary written by peer
C20_Overwrites ==
    /\ call.op = "set_preferences" /\ ~call.raised
    /\ peer.exists /\ peer.static # EmptyDict
    /\ Encodes(call.preFile, peer.static, peer.dynamic)
    /\ call.preStatic # peer.static
    /\ static # peer.static

\* C21: every construction of SinglePreferences returns the one object the
\* class made first; a construction of the initialized instance runs no
\* load-or-create, writes nothing and leaves the instance's location and
\* dictionaries as they were, whatever location it names; a construction of
\* an instance that is not initialized, the first one or one after an
\* initialization that raised, runs load-or-create at the location it names
\* and the instance is initialized when that returned.
C21_Singleton ==
    call.op = "single_construct" =>
        /\ call.instance = 1 /\ single.thisInstance = 1
        /\ call.preSingle.isInitialized =>
                /\ ~call.raised
                /\ call.realWrites = 0 /\ call.executed = EmptyModule
                /\ static = call.preStatic /\ dynamic = call.preDynamic
                /\ file = call.preFile
                /\ single = call.preSingle
        /\ ~call.preSingle.isInitialized =>
                /\ call.realWrites = 1 \/ call.executed # EmptyModule \/ call.raised
                /\ single.directory = call.directory
                /\ single.isInitialized = ~call.raised

\* a construction that names another location than the one of the
\* initialized instance, whose dictionary is not empty
C21_Witness ==
    /\ call.op = "single_construct"
    /\ call.preSingle.isInitialized
    /\ call.directory # single.directory
    /\ static # EmptyDict

\* a construction after one that raised, which initializes the instance
C21_WitnessRetry ==
    /\ call.op = "single_construct"
    /\ call.preSingle.thisInstance = 1 /\ ~call.preSingle.isInitialized
    /\ ~call.raised /\ single.isInitialized

\* the text of the last temporary file the call wrote
TmpText == GetLines(call.tmpDumped[1], call.tmpDumped[2])

\* C22: in a call of a mutator the real file is written only after a
\* temporary file was written without error, and a real write that
\* succeeded left the text the temporary write had; set_preferences without
\* dynamic has replaced the static dictionary, and any mutator the dynamic
\* one, only when the real write succeeded.
C22_TwoPhaseWrite ==
    call.op \in Mutators =>
        /\ call.realWrites > 0 =>
                /\ call.tmpWrites >= 1 /\ ~call.tmpFailed
                /\ call.realWrites = 1
                /\ ~call.raised => file = FileOf(TmpText)
        /\ (call.op = "set_preferences" /\ ~call.dynGiven /\ static # call.preStatic)
                => call.realWrites = 1 /\ ~call.raised
        /\ dynamic # call.preDynamic => call.realWrites = 1 /\ ~call.raised

\* set_preferences without dynamic that replaced the dictionary after both
\* temporary writes and the real one
C22_Witness ==
    /\ call.op = "set_preferences" /\ ~call.dynGiven
    /\ ~call.raised /\ static # call.preStatic
    /\ call.tmpWrites = 2 /\ call.realWrites = 1
    /\ file = FileOf(TmpText)

\* set_dynamic whose real write failed after the temporary one: the
\* dictionary it built is not assigned
C22_WitnessRefused ==
    /\ call.op = "set_dynamic" /\ call.raised
    /\ call.tmpWrites = 1 /\ call.realWrites = 1
    /\ dynamic = call.preDynamic
    /\ Normalized(static, call.dyn) # dynamic

\* C23: every value of the dynamic dictionary is a tuple of strings, no
\* string twice, after any sequence of mutator calls and reloads of the file
\* the instance wrote itself.
C23_DynamicNormalized ==
    \A k \in DOMAIN dynamic :
        /\ dynamic[k].t = "tuple"
        /\ \A i \in 1..Len(dynamic[k].items) : dynamic[k].items[i].t = "str"
        /\ NoDuplicates(dynamic[k].items)

\* a reload that loaded a declaration of a module, which had been given as
\* a list
C23_Witness ==
    /\ call.op = "reload" /\ ~call.loadFailed
    /\ call.executed.dynamic = dynamic
    /\ \E k \in DOMAIN dynamic : dynamic[k] = PyTuple(<<OS>>)

\* a declaration given as None is the empty tuple
C23_WitnessNone ==
    /\ call.op \in Mutators /\ call.dynGiven /\ ~call.raised
    /\ \E k \in DOMAIN dynamic \cap DOMAIN call.dyn :
            call.dyn[k] = PyNone /\ dynamic[k] = PyTuple(<<>>)

\* the arguments of the call add no key to the static dictionary
AddsNoPreference ==
    call.prefsGiven => DOMAIN call.prefs \subseteq DOMAIN call.preStatic

\* C24: a set_default whose preferences are all keys of the static
\* dictionary already, and whose dynamic keys each have a declaration
\* already or are no key of the static dictionary, writes neither a
\* temporary file nor the real one.
C24_SetDefaultWritesNothing ==
    (/\ call.op = "set_default"
     /\ AddsNoPreference
     /\ call.dynGiven =>
            \A k \in DOMAIN call.dyn :
                k \in DOMAIN call.preDynamic \/ k \notin DOMAIN call.preStatic)
        => call.tmpWrites = 0 /\ call.realWrites = 0

\* the same when every dynamic key has a declaration already: what is left
\* of C24 without the keys that set_dynamic discards
C24_ButDiscardedKeys ==
    (/\ call.op = "set_default"
     /\ AddsNoPreference
     /\ call.dynGiven => DOMAIN call.dyn \subseteq DOMAIN call.preDynamic)
        => /\ call.tmpWrites = 0 /\ call.realWrites = 0
           /\ static = call.preStatic /\ dynamic = call.preDynamic
           /\ file = call.preFile

\* a set_default that rewrote the file for a key it then discarded
C24_Rewrites ==
    /\ call.op = "set_default" /\ ~call.raised
    /\ AddsNoPreference /\ call.dynGiven
    /\ DOMAIN call.dyn \cap DOMAIN call.preStatic = {}
    /\ call.realWrites = 1
    /\ static = call.preStatic /\ dynamic = call.preDynamic

\* C25: a reload that finds no file executes nothing and writes the real
\* file once, with no temporary write before it; when that write succeeds
\* the file encodes two empty dictionaries, both dictionaries of the
\* instance are empty and reload returns without error.
C25_ReloadCreates ==
    (call.op = "reload" /\ ~call.preFile.exists)
        => /\ call.executed = EmptyModule
           /\ call.tmpWrites = 0 /\ call.realWrites = 1
           /\ ~call.loadFailed =>
                /\ ~call.raised
                /\ Encodes(file, EmptyDict, EmptyDict)
                /\ static = EmptyDict /\ dynamic = EmptyDict

\* a reload of an instance with preferences and declarations after the file
\* was removed
C25_Witness ==
    /\ call.op = "reload" /\ ~call.preFile.exists /\ ~call.loadFailed
    /\ call.preStatic # EmptyDict /\ call.preDynamic # EmptyDict
    /\ static = EmptyDict

\* what get returns for every key and default on the dictionaries st and dy
Answers(st, dy) ==
    [k \in Keys |-> [d \in Defaults |-> Get(Store(st, dy, file, pyc), k, d, "ok")]]

\* C26: the static dictionary changes only in set_preferences,
\* update_preferences, set_default and reload; an assignment the caller
\* makes to a key of the dict it passed to set_preferences, or of a dict the
\* preferences property returned, changes neither the static dictionary nor
\* what get returns.
C26_Isolation ==
    /\ static # call.preStatic =>
            call.op \in {"none", "set_preferences", "update_preferences",
                         "set_default", "reload"}
    /\ call.op \in {"modify_argument", "modify_snapshot"} =>
            Answers(static, dynamic) = Answers(call.preStatic, call.preDynamic)

\* the same of the dicts the instance returned and the dicts it copied:
\* what is left of C26 without the dict passed to set_preferences
C26_ButArgument ==
    \/ call.op = "modify_argument" /\ shared
    \/ C26_Isolation

\* the caller's assignment changed the static dictionary, which the file
\* does not encode any more
C26_Aliased ==
    /\ call.op = "modify_argument"
    /\ static # call.preStatic
    /\ Encodes(file, call.preStatic, dynamic)
    /\ ~Encodes(file, static, dynamic)

\* C27: store[key] changes nothing; for a key of the static dictionary it
\* returns what get(key) returns, the stored value or the evaluation of the
\* stored expression, and raises when get(key) raises; for any other key it
\* raises a key error.
C27_SubscriptAgreesWithGet ==
    call.op = "getitem" =>
        /\ static = call.preStatic /\ dynamic = call.preDynamic
        /\ file = call.preFile
        /\ call.key \in DOMAIN call.preStatic =>
              LET g == Get(Store(call.preStatic, call.preDynamic, file, pyc),
                           call.key, PyNone, call.ev)
              IN  /\ call.ret.kind = g.kind
                  /\ g.kind # "error" => call.ret = g
        /\ call.key \notin DOMAIN call.preStatic =>
              call.raised /\ call.ret = KeyError(call.key)

\* a subscript that evaluated the stored expression
C27_Witness ==
    /\ call.op = "getitem"
    /\ call.ret = Evaluated(V1)

\* a subscript of a key that has a declaration and is no static key
C27_WitnessAbsent ==
    /\ call.op = "getitem"
    /\ call.key \in DOMAIN call.preDynamic
    /\ call.ret.kind = "keyerror"

====
